---- MODULE Spec2Model ----
(***************************************************************************)
(* Model of AbstractSearchService (Teclead/search-module, latest revision  *)
(* of AbstractSearch.service.ts): the cache refresh lifecycle (Spec) and    *)
(* the search on the cache (SearchSpec).                                   *)
(*                                                                         *)
(* Node.js runs one callback at a time, so every action below is the code  *)
(* that runs between two awaits of one activation.  There are three        *)
(* sources of activations, and the model runs at most one activation of    *)
(* each at a time (the code itself sets no such limit):                    *)
(*   "timer"   cacheIntervalLifecycle() called by the setInterval callback *)
(*   "manual"  cacheIntervalLifecycle() called by the updateCache route    *)
(*   "direct"  getServerData(config?) called by the integrator itself      *)
(* A source has no activation in flight when its pc is "idle".             *)
(***************************************************************************)
EXTENDS Integers, Sequences, FiniteSets, TLC

(***************************************************************************)
(* Bounds of the model.                                                    *)
(***************************************************************************)
NumMirrors == 2       \* length of the list getSearchUrl() returns
NumCallbacks == 2     \* length of serverDataCallBacks
MaxPartial == 1       \* partial (typed) getServerData calls started in a run

Cycles == {"timer", "manual"}
Procs == Cycles \cup {"direct"}

VARIABLES
  setupPc,            \* position of setUpSearchService()/setUp()
  intervalSet,        \* setInterval() of setUpCacheInterval has been called
  apiSet,             \* the express routes of setUpDefaultAPI are registered
  enableCacheTrigger, \* the integrator's enableCacheTrigger flag
  rawData,            \* this.rawData, the cache
  lastCacheUpdate,    \* this.lastCacheUpdate.status, "absent" while undefined
  pc,                 \* per source: the await its activation is suspended at
  cfg,                \* per source: serverDataRequestConfig?.type, or "undefined"
  urlIndex,           \* per source: urlIndex of getServerData's loop (1-based)
  data,               \* per source: getServerData's local `data` (a body name)
  fnIndex,            \* per source: position in serverDataCallBacks (1-based)
  caught,             \* per source: the catch block of triggerGetServerData ran
                      \* in its latest activation (it logs the error)
  partialCalls,       \* number of partial getServerData calls started so far
  synonymsList,       \* this.synonymsList
  searchPc,           \* "none": no call of getSearchResult; "called"; "done"
  search,             \* the argument of the call of getSearchResult
  result,             \* the SearchResultModel the call returned
  passes,             \* the calls of searchForSingleWord the call made, in order
  history,            \* the calls of getSearchResult that returned, in order:
                      \* argument and SearchResultModel as returned
  args,               \* the arguments of a direct call of a public method
  returned,           \* <<v>> once that call has returned v, <<>> before
  startOrder          \* the cycles in the order in which their latest
                      \* activations were started (kept in OverlapSpec only)

vars == <<setupPc, intervalSet, apiSet, enableCacheTrigger, rawData,
          lastCacheUpdate, pc, cfg, urlIndex, data, fnIndex, caught,
          partialCalls, synonymsList, searchPc, search, result, passes,
          history, args, returned, startOrder>>

(***************************************************************************)
(* Strings are sequences of characters; an argument that may be undefined  *)
(* is a record [defined, chars].                                           *)
(***************************************************************************)
MaxLen == 4           \* length of the longest query string

\* The characters of query strings: two letters, an upper-case letter and
\* the blank.
Alphabet == {"a", "b", "A", " "}

undefinedString == [defined |-> FALSE, chars |-> <<>>]
String(cs) == [defined |-> TRUE, chars |-> cs]

\* The result variable before getSearchResult has returned.
noResult == [search |-> <<>>, foundItems |-> 0, results |-> <<>>]

\* The args variable while no public method is called directly.
noArguments == [method |-> "none"]

\* getDefaultSynonyms(): the groups of lib/synonyms.txt, lower-cased.
getDefaultSynonyms == << << <<"a">>, <<"b", "b">> >> >>

(***************************************************************************)
(* Remote data.  A list that may be missing (undefined/null in the JSON)   *)
(* is a record [defined, items]; a node is [id, children].                 *)
(***************************************************************************)
Missing == [defined |-> FALSE, items |-> <<>>]
List(s) == [defined |-> TRUE, items |-> s]
Node(id, children) == [id |-> id, children |-> children]

\* Nodes on which the integrator's getRawDataElement throws.
ThrowingNodes == {9}

Undefined == "undefined"
Page == "cq:Page"

\* The JSON values a mirror's body can parse to.
\*   "{}"        no pathList field (also what an empty body parses to)
\*   "emptyList" {pathList: []}
\*   "A", "B"    valid trees served for the full request
\*   "T"         a valid tree on which the transform throws part-way
\*   "P"         the valid tree served for a typed (partial) request
\*   "status500" the body of a response with HTTP status 500 that is JSON
\*               with a non-empty pathList (response.ok and response.status
\*               are never read)
JsonBodies == {"{}", "emptyList", "A", "B", "T", "P", "status500"}

Json(name) ==
  CASE name = "{}" -> [hasPathList |-> FALSE, pathList |-> <<>>]
    [] name = "emptyList" -> [hasPathList |-> TRUE, pathList |-> <<>>]
    [] name = "A" ->
         [hasPathList |-> TRUE,
          pathList |-> << List(<< Node(1, List(<< Node(2, List(<< Node(3, Missing) >>)),
                                                   Node(4, Missing) >>)) >>) >>]
    [] name = "B" ->
         [hasPathList |-> TRUE,
          pathList |-> << List(<< Node(5, List(<<>>)) >>),
                          Missing,
                          List(<< Node(6, Missing), Node(7, List(<< Node(8, Missing) >>)) >>) >>]
    [] name = "P" ->
         [hasPathList |-> TRUE,
          pathList |-> << List(<< Node(12, List(<< Node(13, List(<< Node(14, Missing) >>)) >>)) >>) >>]
    [] name = "status500" ->
         [hasPathList |-> TRUE,
          pathList |-> << List(<< Node(15, List(<< Node(16, Missing) >>)) >>) >>]
    [] name = "T" ->
         [hasPathList |-> TRUE,
          pathList |-> << List(<< Node(10, List(<< Node(9, List(<< Node(11, Missing) >>)) >>)) >>) >>]

\* What one request to a mirror ends in: fetch() rejects, response.text()
\* rejects, the body is not JSON, or the body parses to one of JsonBodies.
\* getSearchUrl(config) builds the URLs from the config, so a typed request
\* is answered with the typed tree and a full request with a full tree.
Outcomes(type) ==
  {"networkError", "textError", "notJson", "{}", "emptyList"}
    \cup (IF type = Undefined THEN {"A", "B", "T"} ELSE {"P"})


(***************************************************************************)
(* Pure functions of getServerData and setUpData.                          *)
(***************************************************************************)

\* data && data.pathList && data.pathList.length > 0
isValidResponse(d) ==
  /\ d # Undefined
  /\ Json(d).hasPathList
  /\ Len(Json(d).pathList) > 0

\* The integrator's transform of one node into a cache record.
getRawDataElement(child, type) == [id |-> child.id, type |-> type]

\* setUpData pushing the record of a node after the records of the node's
\* descendants.
RECURSIVE setUpData_ChildrenFirst(_, _, _)
setUpData_ChildrenFirst(list, type, acc) ==
  IF ~list.defined THEN acc
  ELSE
    LET RECURSIVE forEach(_, _)
        forEach(i, a) ==
          IF i > Len(list.items) \/ a.threw THEN a
          ELSE LET child == list.items[i] IN
               IF child.children.defined
               THEN IF child.id \in ThrowingNodes
                    THEN [a EXCEPT !.threw = TRUE]
                    ELSE forEach(i + 1,
                           [setUpData_ChildrenFirst(child.children, type, a)
                              EXCEPT !.rawData = Append(@, getRawDataElement(child, type))])
               ELSE forEach(i + 1, a)
    IN forEach(1, acc)

\* setUpData(data, type), run on the accumulator acc = [rawData, threw]:
\* rawData is this.rawData as pushed so far, threw says that getRawDataElement
\* has thrown (nothing after the throw runs).
RECURSIVE setUpData(_, _, _)
setUpData(list, type, acc) ==
  IF ~list.defined THEN acc
  ELSE
    LET RECURSIVE forEach(_, _)
        forEach(i, a) ==
          IF i > Len(list.items) \/ a.threw THEN a
          ELSE LET child == list.items[i] IN
               IF child.children.defined
               THEN IF child.id \in ThrowingNodes
                    THEN [a EXCEPT !.threw = TRUE]
                    ELSE forEach(i + 1,
                           setUpData(child.children, type,
                             [a EXCEPT !.rawData = Append(@, getRawDataElement(child, type))]))
               ELSE forEach(i + 1, a)
    IN forEach(1, acc)

\* data.pathList.forEach((startChild) => this.setUpData(startChild, type))
RECURSIVE pathListForEach(_, _, _, _)
pathListForEach(pathList, i, type, acc) ==
  IF i > Len(pathList) \/ acc.threw THEN acc
  ELSE pathListForEach(pathList, i + 1, type, setUpData(pathList[i], type, acc))

\* Mutant of cacheBeforeFlatten: the cache is never emptied before flattening.
cacheBeforeFlatten_Keeps(old, type) == old

\* Mutant of cacheBeforeFlatten: a typed refresh empties the cache as well.
cacheBeforeFlatten_Clears(old, type) == <<>>

\* if (!serverDataRequestConfig || !this.rawData) this.rawData = [];
cacheBeforeFlatten(old, type) == IF type = Undefined THEN <<>> ELSE old

\* Mutant of applyResponse: the failure branch also empties the cache.
applyResponse_ClearsOnError(old, oldStatus, d, type) ==
  IF isValidResponse(d)
  THEN LET r == pathListForEach(Json(d).pathList, 1, type,
                  [rawData |-> cacheBeforeFlatten(old, type), threw |-> FALSE])
       IN [rawData |-> r.rawData,
           status |-> IF r.threw THEN oldStatus ELSE "Success",
           threw |-> r.threw]
  ELSE [rawData |-> <<>>, status |-> "Error", threw |-> FALSE]

\* The block of getServerData after the loop: the new cache, the new status
\* and whether the block threw (then lastCacheUpdate was not assigned).
applyResponse(old, oldStatus, d, type) ==
  IF isValidResponse(d)
  THEN LET r == pathListForEach(Json(d).pathList, 1, type,
                  [rawData |-> cacheBeforeFlatten(old, type), threw |-> FALSE])
       IN [rawData |-> r.rawData,
           status |-> IF r.threw THEN oldStatus ELSE "Success",
           threw |-> r.threw]
  ELSE [rawData |-> old, status |-> "Error", threw |-> FALSE]

\* Mutant of loopEnds: the `break` is missing.
loopEnds_NoBreak(valid, i) == i >= NumMirrors

\* The loop over searchUrls stops after the response of mirror i when that
\* response is valid (break) or mirror i is the last one.
loopEnds(valid, i) == valid \/ i >= NumMirrors

\* The complete flattening of a body for a full refresh.
Flattening(d, type) ==
  pathListForEach(Json(d).pathList, 1, type, [rawData |-> <<>>, threw |-> FALSE])

(***************************************************************************)
(* Initial state: the object after its constructor.                        *)
(***************************************************************************)
Init ==
  /\ setupPc = "new"
  /\ intervalSet = FALSE
  /\ apiSet = FALSE
  /\ enableCacheTrigger \in BOOLEAN
  /\ rawData = <<>>
  /\ lastCacheUpdate = "absent"
  /\ pc = [c \in Procs |-> "idle"]
  /\ cfg = [c \in Procs |-> Undefined]
  /\ urlIndex = [c \in Procs |-> 0]
  /\ data = [c \in Procs |-> Undefined]
  /\ fnIndex = [c \in Procs |-> 0]
  /\ caught = [c \in Procs |-> FALSE]
  /\ partialCalls = 0
  /\ synonymsList = <<>>
  /\ searchPc = "none"
  /\ search = undefinedString
  /\ result = noResult
  /\ passes = <<>>
  /\ history = <<>>
  /\ startOrder = <<>>
  /\ args = noArguments
  /\ returned = <<>>

setupVars == <<setupPc, intervalSet, apiSet, enableCacheTrigger>>
cacheVars == <<rawData, lastCacheUpdate>>
slotVars == <<pc, cfg, urlIndex, data, fnIndex, caught>>
callVars == <<searchPc, search, result, passes, history, args, returned, startOrder>>
searchVars == <<synonymsList, callVars>>

\* The activation of c is over: c is "idle" again, the locals are gone.
Release(c) ==
  /\ pc' = [pc EXCEPT ![c] = "idle"]
  /\ cfg' = [cfg EXCEPT ![c] = Undefined]
  /\ urlIndex' = [urlIndex EXCEPT ![c] = 0]
  /\ data' = [data EXCEPT ![c] = Undefined]
  /\ fnIndex' = [fnIndex EXCEPT ![c] = 0]
  /\ UNCHANGED caught

(***************************************************************************)
(* Start-up: setUpSearchService() and setUp().                             *)
(***************************************************************************)
\* setUpSearchService() setting the interval at once, before the delay.
setUpSearchService_IntervalAtOnce ==
  /\ setupPc = "new"
  /\ \E instanceDelay \in {0, 1} :
       setupPc' = IF instanceDelay # 0 THEN "delay" ELSE "setUpCallbacksBefore"
  /\ intervalSet' = TRUE
  /\ UNCHANGED <<apiSet, enableCacheTrigger, cacheVars, slotVars, partialCalls,
                 searchVars>>

\* setUpSearchService(): with an instanceDelay setUp() is deferred by
\* setTimeout, otherwise setUp() starts at once and awaits setUpCallbacksBefore.
setUpSearchService ==
  /\ setupPc = "new"
  /\ \E instanceDelay \in {0, 1} :
       setupPc' = IF instanceDelay # 0 THEN "delay" ELSE "setUpCallbacksBefore"
  /\ UNCHANGED <<intervalSet, apiSet, enableCacheTrigger, cacheVars, slotVars, partialCalls,
                 searchVars>>

\* The setTimeout of setUpSearchService fires and calls setUp().
DelayElapsed ==
  /\ setupPc = "delay"
  /\ setupPc' = "setUpCallbacksBefore"
  /\ UNCHANGED <<intervalSet, apiSet, enableCacheTrigger, cacheVars, slotVars, partialCalls,
                 searchVars>>

\* setUpCallbacksBefore() resolved: setUpDefaultAPI(), setUpCacheInterval(),
\* the synonym list is loaded and setUpCallbacksAfter() is called (no code
\* of the service runs after it).
setUp ==
  /\ setupPc = "setUpCallbacksBefore"
  /\ apiSet' = TRUE
  /\ intervalSet' = TRUE
  /\ synonymsList' = getDefaultSynonyms
  /\ setupPc' = "ready"
  /\ UNCHANGED <<enableCacheTrigger, cacheVars, slotVars, partialCalls, callVars>>

(***************************************************************************)
(* Starting an activation.                                                 *)
(***************************************************************************)
\* cacheIntervalLifecycle() is called: cacheIntervalBefore() is awaited.
cacheIntervalLifecycle(c) ==
  /\ pc[c] = "idle"
  /\ pc' = [pc EXCEPT ![c] = "cacheIntervalBefore"]
  /\ UNCHANGED <<cfg, urlIndex, data, fnIndex, caught>>

\* Mutant of TimerTick: a failed refresh stops the interval.
TimerTick_StopsAfterError ==
  /\ intervalSet
  /\ lastCacheUpdate # "Error"
  /\ cacheIntervalLifecycle("timer")
  /\ UNCHANGED <<searchVars, setupVars, cacheVars, partialCalls>>

\* The setInterval callback of setUpCacheInterval fires.
TimerTick ==
  /\ intervalSet
  /\ cacheIntervalLifecycle("timer")
  /\ UNCHANGED <<searchVars, setupVars, cacheVars, partialCalls>>

\* Mutant of ManualTrigger: the route does not look at enableCacheTrigger.
ManualTrigger_Ungated ==
  /\ apiSet
  /\ cacheIntervalLifecycle("manual")
  /\ UNCHANGED <<searchVars, setupVars, cacheVars, partialCalls>>

\* GET {apiPath}/updateCache with enableCacheTrigger set.
ManualTrigger ==
  /\ apiSet
  /\ enableCacheTrigger
  /\ cacheIntervalLifecycle("manual")
  /\ UNCHANGED <<searchVars, setupVars, cacheVars, partialCalls>>

\* GET {apiPath}/updateCache with enableCacheTrigger not set: only the
\* reply 'Manual cache update disabled'.
ManualTriggerDisabled ==
  /\ apiSet
  /\ ~enableCacheTrigger
  /\ UNCHANGED vars

\* getServerData(config) begins: the first mirror is requested.
getServerData(c, type) ==
  /\ pc' = [pc EXCEPT ![c] = "fetch"]
  /\ cfg' = [cfg EXCEPT ![c] = type]
  /\ urlIndex' = [urlIndex EXCEPT ![c] = 1]
  /\ data' = [data EXCEPT ![c] = Undefined]

\* The integrator calls getServerData() or getServerData(config) itself
\* (from a setup hook, a callback or a route of its own).
DirectCall ==
  /\ setupPc \notin {"new", "delay"}
  /\ pc["direct"] = "idle"
  /\ \E type \in {Undefined, Page} :
       /\ type # Undefined => partialCalls < MaxPartial
       /\ partialCalls' = IF type # Undefined THEN partialCalls + 1 ELSE partialCalls
       /\ getServerData("direct", type)
  /\ UNCHANGED <<searchVars, setupVars, cacheVars, fnIndex, caught>>

\* cacheIntervalBefore() resolved: triggerGetServerData() enters its try
\* block and calls getServerData().
BeforeDone(c) ==
  /\ pc[c] = "cacheIntervalBefore"
  /\ getServerData(c, Undefined)
  /\ caught' = [caught EXCEPT ![c] = FALSE]
  /\ UNCHANGED <<searchVars, setupVars, cacheVars, fnIndex, partialCalls>>

\* cacheIntervalBefore() rejected: cacheIntervalLifecycle() rejects.
BeforeThrows(c) ==
  /\ pc[c] = "cacheIntervalBefore"
  /\ Release(c)
  /\ UNCHANGED <<searchVars, setupVars, cacheVars, partialCalls>>


(***************************************************************************)
(* The fetch pass of getServerData.                                        *)
(***************************************************************************)
\* `data` after the request to a mirror ended in outcome o: the catch block
\* leaves `data` as the previous iteration set it.
dataAfter(old, o) == IF o \in JsonBodies THEN o ELSE old

\* The request to mirror urlIndex[c] ended in outcome o (fetch and
\* response.text() are awaited back to back and touch no state of the
\* service, so they are one step).  The rest of the loop body runs and then
\* either the next mirror is requested or the loop ends and the block after
\* it runs in the same turn: the cache and lastCacheUpdate are assigned and
\* getServerData returns or throws.
Respond(c, o) ==
  /\ pc[c] = "fetch"
  /\ LET d == dataAfter(data[c], o)
         r == applyResponse(rawData, lastCacheUpdate, d, cfg[c])
     IN IF ~loopEnds(isValidResponse(d), urlIndex[c])
        THEN /\ urlIndex' = [urlIndex EXCEPT ![c] = @ + 1]
             /\ data' = [data EXCEPT ![c] = d]
             /\ UNCHANGED <<cacheVars, pc, cfg, fnIndex, caught>>
        ELSE /\ rawData' = r.rawData
             /\ lastCacheUpdate' = r.status
             /\ IF ~r.threw
                THEN \* getServerData returns
                     /\ pc' = [pc EXCEPT ![c] = "returned"]
                     /\ data' = [data EXCEPT ![c] = d]
                     /\ UNCHANGED <<cfg, urlIndex, fnIndex, caught>>
                ELSE IF c \in Cycles
                THEN \* caught by triggerGetServerData, which returns;
                     \* cacheIntervalLifecycle awaits cacheIntervalAfter()
                     /\ pc' = [pc EXCEPT ![c] = "cacheIntervalAfter"]
                     /\ cfg' = [cfg EXCEPT ![c] = Undefined]
                     /\ urlIndex' = [urlIndex EXCEPT ![c] = 0]
                     /\ data' = [data EXCEPT ![c] = Undefined]
                     /\ caught' = [caught EXCEPT ![c] = TRUE]
                     /\ UNCHANGED fnIndex
                ELSE \* the rejection goes to the integrator's caller
                     Release(c)
  /\ UNCHANGED <<searchVars, setupVars, partialCalls>>

\* The mirror never answers: fetch() is called without a timeout or an
\* abort signal of the service's own, so its promise never settles and
\* nothing after the await runs (the locals are never read again).
NeverAnswers(c) ==
  /\ pc[c] = "fetch"
  /\ pc' = [pc EXCEPT ![c] = "pending"]
  /\ cfg' = [cfg EXCEPT ![c] = Undefined]
  /\ urlIndex' = [urlIndex EXCEPT ![c] = 0]
  /\ data' = [data EXCEPT ![c] = Undefined]
  /\ UNCHANGED <<searchVars, setupVars, cacheVars, fnIndex, caught, partialCalls>>

(***************************************************************************)
(* triggerGetServerData after getServerData, and the rest of the cycle.    *)
(***************************************************************************)
\* Mutant of nextCallback: the loop steps by two.
nextCallback_Skips(i) == IF i + 1 < NumCallbacks THEN i + 2 ELSE 0

\* The callback that follows callback i in `for (const fn of
\* this.serverDataCallBacks) await fn()`; 0 when the loop is over.
nextCallback(i) == IF i < NumCallbacks THEN i + 1 ELSE 0

\* Where triggerGetServerData goes when callback i threw: the catch block
\* is outside the loop, so the loop is over.
callbackAfterThrow(i) == 0

\* The slot c awaits callback i, or (i = 0) triggerGetServerData has
\* returned and cacheIntervalLifecycle awaits cacheIntervalAfter().
runCallback(c, i) ==
  /\ pc' = [pc EXCEPT ![c] = IF i = 0 THEN "cacheIntervalAfter" ELSE "callback"]
  /\ fnIndex' = [fnIndex EXCEPT ![c] = i]

\* `await this.getServerData()` resumes.  In a cycle the callbacks start;
\* a direct call is over.
Resume(c) ==
  /\ pc[c] = "returned"
  /\ IF c \in Cycles
     THEN /\ runCallback(c, nextCallback(0))
          /\ cfg' = [cfg EXCEPT ![c] = Undefined]
          /\ urlIndex' = [urlIndex EXCEPT ![c] = 0]
          /\ data' = [data EXCEPT ![c] = Undefined]
          /\ UNCHANGED caught
     ELSE Release(c)
  /\ UNCHANGED <<searchVars, setupVars, cacheVars, partialCalls>>

\* Callback fnIndex[c] resolved.
CallbackDone(c) ==
  /\ pc[c] = "callback"
  /\ runCallback(c, nextCallback(fnIndex[c]))
  /\ UNCHANGED <<searchVars, setupVars, cacheVars, cfg, urlIndex, data, caught, partialCalls>>

\* Callback fnIndex[c] rejected (or threw): the catch block runs.
CallbackThrows(c) ==
  /\ pc[c] = "callback"
  /\ runCallback(c, callbackAfterThrow(fnIndex[c]))
  /\ caught' = [caught EXCEPT ![c] = TRUE]
  /\ UNCHANGED <<searchVars, setupVars, cacheVars, cfg, urlIndex, data, partialCalls>>

\* cacheIntervalAfter() settled: cacheIntervalLifecycle() is over.
AfterDone(c) ==
  /\ pc[c] = "cacheIntervalAfter"
  /\ Release(c)
  /\ UNCHANGED <<searchVars, setupVars, cacheVars, partialCalls>>

(***************************************************************************)
(* The specification.                                                      *)
(***************************************************************************)
Next ==
  \/ setUpSearchService
  \/ DelayElapsed
  \/ setUp
  \/ TimerTick
  \/ ManualTrigger
  \/ ManualTriggerDisabled
  \/ DirectCall
  \/ \E c \in Cycles : BeforeDone(c)
  \/ \E c \in Cycles : BeforeThrows(c)
  \/ \E c \in Procs : \E o \in Outcomes(cfg[c]) : Respond(c, o)
  \/ \E c \in Procs : NeverAnswers(c)
  \/ \E c \in Procs : Resume(c)
  \/ \E c \in Cycles : CallbackDone(c)
  \/ \E c \in Cycles : CallbackThrows(c)
  \/ \E c \in Cycles : AfterDone(c)

Spec == Init /\ [][Next]_vars

TypeOK ==
  /\ setupPc \in {"new", "delay", "setUpCallbacksBefore", "ready"}
  /\ intervalSet \in BOOLEAN /\ apiSet \in BOOLEAN /\ enableCacheTrigger \in BOOLEAN
  /\ lastCacheUpdate \in {"absent", "Success", "Error"}
  /\ \A c \in Procs :
       /\ pc[c] \in {"idle", "cacheIntervalBefore", "fetch", "pending", "returned",
                     "callback", "cacheIntervalAfter"}
       /\ cfg[c] \in {Undefined, Page}
       /\ urlIndex[c] \in 0..NumMirrors
       /\ data[c] \in JsonBodies \cup {Undefined}
       /\ fnIndex[c] \in 0..NumCallbacks
       /\ caught[c] \in BOOLEAN
  /\ partialCalls \in 0..MaxPartial
  /\ synonymsList \in {<<>>, getDefaultSynonyms}
  /\ searchPc \in {"none", "called", "done"}


(***************************************************************************)
(* String functions of JavaScript, as the search uses them.                *)
(***************************************************************************)
\* String.prototype.toLowerCase
toLowerCase(s) == [i \in 1..Len(s) |-> IF s[i] = "A" THEN "a" ELSE s[i]]

\* String.prototype.trim (the blank is the only white space of Alphabet)
RECURSIVE trimStart(_)
trimStart(s) == IF s # <<>> /\ Head(s) = " " THEN trimStart(Tail(s)) ELSE s

RECURSIVE trimEnd(_)
trimEnd(s) ==
  IF s # <<>> /\ s[Len(s)] = " " THEN trimEnd(SubSeq(s, 1, Len(s) - 1)) ELSE s

trim(s) == trimEnd(trimStart(s))

\* s.split(' '): the pieces between single blanks, empty pieces included;
\* the empty string gives one empty piece.
split(s) ==
  LET RECURSIVE go(_, _, _)
      go(i, cur, acc) ==
        IF i > Len(s) THEN Append(acc, cur)
        ELSE IF s[i] = " " THEN go(i + 1, <<>>, Append(acc, cur))
        ELSE go(i + 1, Append(cur, s[i]), acc)
  IN go(1, <<>>, <<>>)

\* String.prototype.includes: needle is a substring of hay.
includes(hay, needle) ==
  \E i \in 0..(Len(hay) - Len(needle)) : SubSeq(hay, i + 1, i + Len(needle)) = needle

\* Array.prototype.includes / indexOf(x) > -1
arrayIncludes(arr, x) == \E i \in 1..Len(arr) : arr[i] = x

\* [...new Set(arr)]: the first occurrence of every element, in order.
RECURSIVE unique(_)
unique(arr) ==
  IF arr = <<>> THEN <<>>
  ELSE LET init == unique(SubSeq(arr, 1, Len(arr) - 1))
           last == arr[Len(arr)]
       IN IF arrayIncludes(init, last) THEN init ELSE Append(init, last)

\* Array.prototype.sort with a comparator on a numeric key, descending; the
\* sort is stable.  keys[i] is the number compared for arr[i].
sortDescending(arr, keys) ==
  LET \* sorted is a list of indices of arr
      RECURSIVE insert(_, _)
      insert(sorted, x) ==
        IF sorted = <<>> THEN <<x>>
        ELSE IF keys[sorted[Len(sorted)]] >= keys[x] THEN Append(sorted, x)
        ELSE Append(insert(SubSeq(sorted, 1, Len(sorted) - 1), x), sorted[Len(sorted)])
      RECURSIVE go(_, _)
      go(i, sorted) == IF i > Len(arr) THEN sorted ELSE go(i + 1, insert(sorted, i))
      order == go(1, <<>>)
  IN [i \in 1..Len(arr) |-> arr[order[i]]]

\* Array.prototype.toString: the elements joined by commas.
RECURSIVE toString(_)
toString(arr) ==
  IF arr = <<>> THEN <<>>
  ELSE IF Len(arr) = 1 THEN arr[1]
  ELSE arr[1] \o <<",">> \o toString(Tail(arr))

(***************************************************************************)
(* The integrator's search model: the ranked fields of the cached records. *)
(***************************************************************************)
\* A ranked field (SearchRankModel); searchElement is a string or a list of
\* strings.
stringElement(cs) == [isArray |-> FALSE, value |-> cs, items |-> <<>>]
arrayElement(strs) == [isArray |-> TRUE, value |-> <<>>, items |-> strs]

\* A value of a ranked field that is not a string: a number (not 0).  It
\* has no toLowerCase method.
aNumber == <<"number">>

isString(x) == x # aNumber

\* getSearchCriteria(searchModel): the record's title (full match, rank 3),
\* text (rank 2) and keywords (a list, full match, rank 1).
getSearchCriteria(searchModel) ==
  CASE searchModel.id = 1 ->
         << [searchElement |-> stringElement(<<"a", "b">>), fullMatch |-> TRUE,
             rank |-> 3, synonymRank |-> 1],
            [searchElement |-> stringElement(<<"b", " ", "a", "b">>), fullMatch |-> FALSE,
             rank |-> 2, synonymRank |-> 1] >>
    [] searchModel.id = 2 ->
         << [searchElement |-> stringElement(<<"A", "b", " ", "b", "a">>), fullMatch |-> TRUE,
             rank |-> 3, synonymRank |-> 1] >>
    [] searchModel.id = 5 ->
         << [searchElement |-> stringElement(<<>>), fullMatch |-> TRUE,
             rank |-> 3, synonymRank |-> 1],
            [searchElement |-> stringElement(<<"b", "b">>), fullMatch |-> FALSE,
             rank |-> 2, synonymRank |-> 1],
            [searchElement |-> arrayElement(<< <<"b">>, <<"A", " ", "b">> >>), fullMatch |-> TRUE,
             rank |-> 1, synonymRank |-> 1] >>
    [] searchModel.id = 6 ->
         << [searchElement |-> stringElement(<<"a", "b">>), fullMatch |-> TRUE,
             rank |-> 3, synonymRank |-> 1],
            [searchElement |-> stringElement(aNumber), fullMatch |-> FALSE,
             rank |-> 2, synonymRank |-> 1],
            [searchElement |-> arrayElement(<< aNumber, <<"b">> >>), fullMatch |-> TRUE,
             rank |-> 1, synonymRank |-> 1] >>
    [] searchModel.id = 7 ->
         << [searchElement |-> stringElement(<<"b">>), fullMatch |-> TRUE,
             rank |-> 3, synonymRank |-> 1],
            [searchElement |-> arrayElement(<< <<"b">>, aNumber >>), fullMatch |-> TRUE,
             rank |-> 1, synonymRank |-> 1] >>
    [] OTHER -> <<>>

(***************************************************************************)
(* The search: getSynonyms, getSearchRank, searchForSingleWord,            *)
(* getSearchResult.                                                        *)
(***************************************************************************)
\* getSynonyms(search) taking the first group that holds the word only.
getSynonyms_FirstGroup(list, word) ==
  LET RECURSIVE forEach(_, _)
      forEach(i, synonyms) ==
        IF i > Len(list) THEN synonyms
        ELSE IF arrayIncludes(list[i], word)
             THEN unique(synonyms \o list[i])
             ELSE forEach(i + 1, synonyms)
  IN forEach(1, << toLowerCase(word) >>)

\* getSynonyms(search) on the synonym table list.
getSynonyms(list, word) ==
  LET RECURSIVE forEach(_, _)
      forEach(i, synonyms) ==
        IF i > Len(list) THEN synonyms
        ELSE forEach(i + 1, IF arrayIncludes(list[i], word)
                            THEN unique(synonyms \o list[i])
                            ELSE synonyms)
  IN forEach(1, << toLowerCase(word) >>)

\* matchKeywordToSynonym comparing by substring containment whatever
\* fullMatch is.
matchKeywordToSynonym_Substring(synonym, searchElement, fullMatch) ==
  includes(toLowerCase(searchElement), toLowerCase(synonym))

\* matchKeywordToSynonym(synonym, searchElement, fullMatch), on a string.
matchKeywordToSynonym(synonym, searchElement, fullMatch) ==
  IF fullMatch
  THEN arrayIncludes(split(toLowerCase(searchElement)), toLowerCase(synonym))
  ELSE includes(toLowerCase(searchElement), toLowerCase(synonym))

\* searchElement.findIndex(el => matchKeywordToSynonym(synonym, el,
\* fullMatch)) > -1 from element k on: the elements are tested in order up
\* to the first that matches; an element that is not a string makes
\* matchKeywordToSynonym throw, and the catch block of the caller leaves
\* `found` unset for this synonym.
RECURSIVE findIndexFound(_, _, _, _)
findIndexFound(synonym, items, fullMatch, k) ==
  IF k > Len(items) THEN FALSE
  ELSE IF ~isString(items[k]) THEN FALSE
  ELSE IF matchKeywordToSynonym(synonym, items[k], fullMatch) THEN TRUE
  ELSE findIndexFound(synonym, items, fullMatch, k + 1)

\* isKeyWordFoundInSynonym taking every synonym other than the search word
\* for a synonym hit, also on a full-match field.
isKeyWordFoundInSynonym_AnyField(searchModel, searchWithSynonyms, searchWord, partialMatch) ==
  IF ~searchModel.searchElement.isArray /\ searchModel.searchElement.value = <<>>
  THEN [found |-> FALSE, synonym |-> FALSE]
  ELSE
    LET RECURSIVE loop(_, _)
        loop(i, lastIsSynonym) ==
          IF i > Len(searchWithSynonyms)
          THEN [found |-> FALSE, synonym |-> lastIsSynonym]
          ELSE
            LET synonym == searchWithSynonyms[i]
                isSynonym == synonym # searchWord
                fullMatch == IF partialMatch THEN FALSE
                             ELSE IF isSynonym THEN isSynonym ELSE searchModel.fullMatch
                el == searchModel.searchElement
                found == IF el.isArray
                         THEN findIndexFound(synonym, el.items, fullMatch, 1)
                         ELSE /\ isString(el.value)
                              /\ matchKeywordToSynonym(synonym, el.value, fullMatch)
            IN IF found THEN [found |-> TRUE, synonym |-> isSynonym]
               ELSE loop(i + 1, isSynonym)
    IN loop(1, FALSE)

\* isKeyWordFoundInSynonym(searchModel, searchWithSynonyms, searchWord,
\* partialMatch): {found, synonym}.
isKeyWordFoundInSynonym(searchModel, searchWithSynonyms, searchWord, partialMatch) ==
  IF ~searchModel.searchElement.isArray /\ searchModel.searchElement.value = <<>>
  THEN [found |-> FALSE, synonym |-> FALSE]
  ELSE
    LET RECURSIVE loop(_, _)
        loop(i, lastIsSynonym) ==
          IF i > Len(searchWithSynonyms)
          THEN [found |-> FALSE, synonym |-> lastIsSynonym]
          ELSE
            LET synonym == searchWithSynonyms[i]
                isSynonym == synonym # searchWord /\ ~searchModel.fullMatch
                fullMatch == IF partialMatch THEN FALSE
                             ELSE IF isSynonym THEN isSynonym ELSE searchModel.fullMatch
                el == searchModel.searchElement
                found == IF el.isArray
                         THEN findIndexFound(synonym, el.items, fullMatch, 1)
                         ELSE /\ isString(el.value)
                              /\ matchKeywordToSynonym(synonym, el.value, fullMatch)
            IN IF found THEN [found |-> TRUE, synonym |-> isSynonym]
               ELSE loop(i + 1, isSynonym)
    IN loop(1, FALSE)

\* A cached record with its searchRank field assigned.
withSearchRank(searchModel, n) ==
  [id |-> searchModel.id, type |-> searchModel.type, searchRank |-> n]

\* getSearchRank adding the field's rank for every field found, also for a
\* field found by a synonym.
getSearchRank_RankOnly(searchModel, searchWithSynonyms, searchWord, partialMatch) ==
  LET criteria == getSearchCriteria(searchModel)
      RECURSIVE forEach(_, _)
      forEach(i, searchRank) ==
        IF i > Len(criteria) THEN searchRank
        ELSE LET el == criteria[i]
                 kw == isKeyWordFoundInSynonym(el, searchWithSynonyms, searchWord, partialMatch)
             IN forEach(i + 1, IF kw.found THEN searchRank + el.rank ELSE searchRank)
  IN withSearchRank(searchModel, forEach(1, 0))

\* getSearchRank(searchModel, searchWithSynonyms, searchWord, partialMatch):
\* the record itself with searchRank set to the sum of the weights of the
\* fields found.
getSearchRank(searchModel, searchWithSynonyms, searchWord, partialMatch) ==
  LET criteria == getSearchCriteria(searchModel)
      RECURSIVE forEach(_, _)
      forEach(i, searchRank) ==
        IF i > Len(criteria) THEN searchRank
        ELSE LET el == criteria[i]
                 kw == isKeyWordFoundInSynonym(el, searchWithSynonyms, searchWord, partialMatch)
                 elRank == IF kw.synonym THEN el.synonymRank ELSE el.rank
             IN forEach(i + 1, IF kw.found THEN searchRank + elRank ELSE searchRank)
  IN withSearchRank(searchModel, forEach(1, 0))

\* The searchRank a caller reads from a record: 0 stands for a record that
\* was never scored (the field is undefined and `undefined > 0` is false).
searchRankOf(searchModel) ==
  IF "searchRank" \in DOMAIN searchModel THEN searchModel.searchRank ELSE 0

\* .filter((searchElement) => searchElement.searchRank > 0)
RECURSIVE filterPositive(_)
filterPositive(arr) ==
  IF arr = <<>> THEN <<>>
  ELSE LET init == filterPositive(SubSeq(arr, 1, Len(arr) - 1))
           last == arr[Len(arr)]
       IN IF searchRankOf(last) > 0 THEN Append(init, last) ELSE init

\* The searchRank of every record of a list.
searchRanks(arr) == [i \in 1..Len(arr) |-> searchRankOf(arr[i])]

\* searchForSingleWord sorting the cache itself, not the list of the records
\* found.
searchForSingleWord_SortsCache(cache, list, word, partialMatchesForSecondSearch) ==
  LET synonyms == getSynonyms(list, word)
      scored == [i \in 1..Len(cache) |->
                   getSearchRank(cache[i], synonyms, word, partialMatchesForSecondSearch)]
      sorted == sortDescending(scored, searchRanks(scored))
      results == IF word # <<>> THEN filterPositive(sorted) ELSE cache
  IN [result |-> [search |-> toString(synonyms), foundItems |-> Len(results),
                  results |-> results],
      rawData |-> IF word # <<>> THEN sorted ELSE cache]

\* searchForSingleWord labelling its result with the word searched instead
\* of the word's synonyms.
searchForSingleWord_LabelsWord(cache, list, word, partialMatchesForSecondSearch) ==
  LET synonyms == getSynonyms(list, word)
      scored == [i \in 1..Len(cache) |->
                   getSearchRank(cache[i], synonyms, word, partialMatchesForSecondSearch)]
      found == filterPositive(scored)
      results == IF word # <<>>
                 THEN sortDescending(found, searchRanks(found))
                 ELSE cache
  IN [result |-> [search |-> word, foundItems |-> Len(results),
                  results |-> results],
      rawData |-> IF word # <<>> THEN scored ELSE cache]

\* searchForSingleWord(search, partialMatchesForSecondSearch) on the cache:
\* the SearchResultModel returned and the cache after the call (getSearchRank
\* writes searchRank into the cached records themselves, and the results
\* are those records).
searchForSingleWord(cache, list, word, partialMatchesForSecondSearch) ==
  LET synonyms == getSynonyms(list, word)
      scored == [i \in 1..Len(cache) |->
                   getSearchRank(cache[i], synonyms, word, partialMatchesForSecondSearch)]
      found == filterPositive(scored)
      results == IF word # <<>>
                 THEN sortDescending(found, searchRanks(found))
                 ELSE cache
  IN [result |-> [search |-> toString(synonyms), foundItems |-> Len(results),
                  results |-> results],
      rawData |-> IF word # <<>> THEN scored ELSE cache]

\* One call of searchForSingleWord, as recorded in passes.
Pass(word, partial) == [search |-> word, partial |-> partial]

\* 'not-definied', the search label of the reply to an empty query.
notDefinied == <<"n", "o", "t", "-", "d", "e", "f", "i", "n", "i", "e", "d">>

\* The length of every string of a list.
lengths(arr) == [i \in 1..Len(arr) |-> Len(arr[i])]

\* Mutant of secondSearchTerm: the words are not sorted.
secondSearchTerm_Unsorted(normalized) == split(normalized)

\* search.split(' ').sort((a, b) => b.length - a.length)
secondSearchTerm(normalized) == sortDescending(split(normalized), lengths(split(normalized)))

\* search.split(' ').length > 1
hasMultipleWords(normalized) == Len(split(normalized)) > 1

\* !(firstLevelSearch.results.length === 0)
skipsThirdLevel(firstLevelSearch) == Len(firstLevelSearch.results) # 0

\* Mutant of thirdLevelPartial: the third level is not relaxed.
thirdLevelPartial_Off == FALSE

\* The partialMatchesForSecondSearch argument of the third level.
thirdLevelPartial == TRUE

\* !search, for a string or undefined
isEmptySearch(arg) == ~arg.defined \/ arg.chars = <<>>

\* Mutant of firstLevelFound: the single words are tried although the first
\* level found records.
firstLevelFound_Never(firstLevelSearch) == FALSE

\* !(firstLevelSearch.foundItems === 0)
firstLevelFound(firstLevelSearch) == firstLevelSearch.foundItems # 0

\* The loop over secondSearchTerm from word i on, on the cache c, after the
\* calls ps of searchForSingleWord: whether the loop returned, the result it
\* returned, the cache and the calls made.
RECURSIVE secondLevel(_, _, _, _, _)

\* The body of the loop after the call for word i gave secondLevelSearch.
secondLevelWord(secondLevelSearch, list, words, i, ps) ==
  IF secondLevelSearch.result.foundItems > 0
  THEN [returned |-> TRUE, result |-> secondLevelSearch.result,
        rawData |-> secondLevelSearch.rawData, passes |-> ps]
  ELSE secondLevel(secondLevelSearch.rawData, list, words, i + 1, ps)

secondLevel(c, list, words, i, ps) ==
  IF i > Len(words)
  THEN [returned |-> FALSE, result |-> noResult, rawData |-> c, passes |-> ps]
  ELSE secondLevelWord(searchForSingleWord(c, list, words[i], FALSE),
                       list, words, i, Append(ps, Pass(words[i], FALSE)))

\* The end of getSearchResult when the third level ran and gave
\* thirdLevelSearch, after the calls ps.
thirdLevel(thirdLevelSearch, normalized, ps) ==
  [result |-> thirdLevelSearch.result, rawData |-> thirdLevelSearch.rawData,
   passes |-> Append(ps, Pass(normalized, thirdLevelPartial))]

\* getSearchResult from line 1301 on, when the loop did not return.
afterSecondLevel(firstLevelSearch, afterSecond, list, normalized) ==
  IF afterSecond.returned
  THEN [result |-> afterSecond.result, rawData |-> afterSecond.rawData,
        passes |-> afterSecond.passes]
  ELSE IF ~skipsThirdLevel(firstLevelSearch.result)
  THEN thirdLevel(searchForSingleWord(afterSecond.rawData, list, normalized,
                                      thirdLevelPartial),
                  normalized, afterSecond.passes)
  ELSE [result |-> firstLevelSearch.result, rawData |-> afterSecond.rawData,
        passes |-> afterSecond.passes]

\* getSearchResult after the first call of searchForSingleWord gave
\* firstLevelSearch.
afterFirstLevel(firstLevelSearch, list, normalized) ==
  afterSecondLevel(
    firstLevelSearch,
    IF ~firstLevelFound(firstLevelSearch.result) /\ hasMultipleWords(normalized)
    THEN secondLevel(firstLevelSearch.rawData, list, secondSearchTerm(normalized), 1,
                     << Pass(normalized, FALSE) >>)
    ELSE [returned |-> FALSE, result |-> noResult, rawData |-> firstLevelSearch.rawData,
          passes |-> << Pass(normalized, FALSE) >>],
    list, normalized)

\* search.trim().toLowerCase()
normalize(cs) == toLowerCase(trim(cs))

\* getSearchResult(search) on the cache: the SearchResultModel returned, the
\* cache after the call and the calls of searchForSingleWord made.
getSearchResult(cache, list, arg) ==
  IF isEmptySearch(arg)
  THEN [result |-> [search |-> notDefinied, foundItems |-> 0, results |-> <<>>],
        rawData |-> cache, passes |-> <<>>]
  ELSE afterFirstLevel(searchForSingleWord(cache, list, normalize(arg.chars), FALSE),
                       list, normalize(arg.chars))

(***************************************************************************)
(* SearchSpec: one call of getSearchResult on a service that is set up,    *)
(* for every cache, synonym table and argument within the bounds.          *)
(***************************************************************************)
MaxCache == 2         \* number of records in the cache

\* The nodes the cached records come from.
SearchIds == {1, 2, 5}

RECURSIVE SeqsUpTo(_, _)
SeqsUpTo(S, n) ==
  IF n = 0 THEN {<<>>}
  ELSE LET shorter == SeqsUpTo(S, n - 1)
       IN shorter \cup {Append(q, x) : q \in {t \in shorter : Len(t) = n - 1}, x \in S}

\* The caches: lists of records of distinct nodes, as setUpData pushed them.
Caches ==
  {[i \in 1..Len(ids) |-> getRawDataElement([id |-> ids[i]], Undefined)] :
     ids \in {q \in SeqsUpTo(SearchIds, MaxCache) :
                \A i, j \in 1..Len(q) : i # j => q[i] # q[j]}}

\* The arguments of getSearchResult.
Queries == {undefinedString} \cup {String(cs) : cs \in SeqsUpTo(Alphabet, MaxLen)}

SearchInit ==
  /\ setupPc = "ready"
  /\ intervalSet = TRUE
  /\ apiSet = TRUE
  /\ enableCacheTrigger = FALSE
  /\ rawData \in Caches
  /\ lastCacheUpdate = "Success"
  /\ pc = [c \in Procs |-> "idle"]
  /\ cfg = [c \in Procs |-> Undefined]
  /\ urlIndex = [c \in Procs |-> 0]
  /\ data = [c \in Procs |-> Undefined]
  /\ fnIndex = [c \in Procs |-> 0]
  /\ caught = [c \in Procs |-> FALSE]
  /\ partialCalls = 0
  /\ synonymsList \in {<<>>, getDefaultSynonyms}
  /\ searchPc = "called"
  /\ search \in Queries
  /\ result = noResult
  /\ passes = <<>>
  /\ history = <<>>
  /\ startOrder = <<>>
  /\ args = noArguments
  /\ returned = <<>>

\* The call getSearchResult(search) runs (it is synchronous) and returns.
SearchCall ==
  /\ searchPc = "called"
  /\ LET r == getSearchResult(rawData, synonymsList, search)
     IN /\ result' = r.result
        /\ rawData' = r.rawData
        /\ passes' = r.passes
        /\ history' = Append(history, [search |-> search, result |-> r.result])
  /\ searchPc' = "done"
  /\ UNCHANGED <<setupVars, lastCacheUpdate, slotVars, partialCalls, synonymsList, search,
                 args, returned, startOrder>>

SearchNext == SearchCall

SearchSpec == SearchInit /\ [][SearchNext]_vars

(***************************************************************************)
(* SessionSpec: several calls of getSearchResult one after the other on    *)
(* the same cache, with no refresh in between.                             *)
(***************************************************************************)
MaxCalls == 3         \* number of calls of getSearchResult

\* The arguments of the calls.
SessionQueries ==
  {undefinedString, String(<<" ">>), String(<<"a">>), String(<<"b", "b">>),
   String(<<"A", " ", "b">>)}

SessionInit ==
  /\ SearchInit
  /\ search \in SessionQueries

\* The next request arrives after the reply to the last one: the route calls
\* getSearchResult with its query.
NextSearch ==
  /\ searchPc = "done"
  /\ Len(history) < MaxCalls
  /\ search' \in SessionQueries
  /\ searchPc' = "called"
  /\ UNCHANGED <<setupVars, cacheVars, slotVars, partialCalls, synonymsList,
                 result, passes, history, args, returned, startOrder>>

SessionNext == SearchCall \/ NextSearch

SessionSpec == SessionInit /\ [][SessionNext]_vars

(***************************************************************************)
(* MalformedSpec: one call of getSearchResult on a cache with records      *)
(* that have a ranked field which is neither a string nor a list of        *)
(* strings.                                                                *)
(***************************************************************************)
\* Record 1 is well-formed; record 6 has a number for its text and a list
\* that begins with a number; record 7 has a list that ends with a number.
MalformedIds == {1, 6, 7}

MalformedCaches ==
  {[i \in 1..Len(ids) |-> getRawDataElement([id |-> ids[i]], Undefined)] :
     ids \in {q \in SeqsUpTo(MalformedIds, MaxCache) :
                /\ q # <<>>
                /\ \A i, j \in 1..Len(q) : i # j => q[i] # q[j]}}

MalformedInit ==
  /\ setupPc = "ready"
  /\ intervalSet = TRUE
  /\ apiSet = TRUE
  /\ enableCacheTrigger = FALSE
  /\ rawData \in MalformedCaches
  /\ lastCacheUpdate = "Success"
  /\ pc = [c \in Procs |-> "idle"]
  /\ cfg = [c \in Procs |-> Undefined]
  /\ urlIndex = [c \in Procs |-> 0]
  /\ data = [c \in Procs |-> Undefined]
  /\ fnIndex = [c \in Procs |-> 0]
  /\ caught = [c \in Procs |-> FALSE]
  /\ partialCalls = 0
  /\ synonymsList \in {<<>>, getDefaultSynonyms}
  /\ searchPc = "called"
  /\ search \in Queries
  /\ result = noResult
  /\ passes = <<>>
  /\ history = <<>>
  /\ startOrder = <<>>
  /\ args = noArguments
  /\ returned = <<>>

MalformedNext == SearchCall

MalformedSpec == MalformedInit /\ [][MalformedNext]_vars

(***************************************************************************)
(* Direct calls of public methods, each for every argument within the      *)
(* bounds, on a service that is set up.                                    *)
(***************************************************************************)
\* The service is set up, its cache is empty and no request is served; the
\* synonym table and the arguments of the call are left to the caller.
DirectInit ==
  /\ setupPc = "ready"
  /\ intervalSet = TRUE
  /\ apiSet = TRUE
  /\ enableCacheTrigger = FALSE
  /\ rawData = <<>>
  /\ lastCacheUpdate = "absent"
  /\ pc = [c \in Procs |-> "idle"]
  /\ cfg = [c \in Procs |-> Undefined]
  /\ urlIndex = [c \in Procs |-> 0]
  /\ data = [c \in Procs |-> Undefined]
  /\ fnIndex = [c \in Procs |-> 0]
  /\ caught = [c \in Procs |-> FALSE]
  /\ partialCalls = 0
  /\ searchPc = "none"
  /\ search = undefinedString
  /\ result = noResult
  /\ passes = <<>>
  /\ history = <<>>
  /\ startOrder = <<>>
  /\ returned = <<>>

\* The words of the synonym groups (lower-cased, as getDefaultSynonyms
\* leaves them).
SynonymWords == {<<"a">>, <<"b">>, <<"b", "b">>}

\* The synonym groups: one word, or two different words.
SynonymGroups ==
  {<<x>> : x \in SynonymWords}
    \cup {g \in {<<x, y>> : x \in SynonymWords, y \in SynonymWords} : g[1] # g[2]}

\* The synonym tables: no group, one group or two groups.
SynonymTables ==
  {<<>>} \cup {<<g>> : g \in SynonymGroups}
    \cup {<<g, h>> : g \in SynonymGroups, h \in SynonymGroups}

SynonymInit ==
  /\ DirectInit
  /\ synonymsList \in SynonymTables
  /\ args \in {[method |-> "getSynonyms", search |-> q.chars] :
                 q \in Queries \ {undefinedString}}

\* The call getSynonyms(search) runs and returns.
GetSynonymsCall ==
  /\ args.method = "getSynonyms"
  /\ returned = <<>>
  /\ returned' = << getSynonyms(synonymsList, args.search) >>
  /\ UNCHANGED <<setupVars, cacheVars, slotVars, partialCalls, synonymsList,
                 searchPc, search, result, passes, history, args, startOrder>>

SynonymNext == GetSynonymsCall

SynonymSpec == SynonymInit /\ [][SynonymNext]_vars

\* The trees setUpData is called with.  The id of a node is the id of its
\* parent followed by the node's position among its siblings, as decimal
\* digits (the children of node 2 are 21 and 22); a node has no children
\* field, an empty children list, or one or two children.
NoChildren == {Missing, List(<<>>)}

\* The nodes with the given id and no children.
Leaves(id) == {Node(id, c) : c \in NoChildren}

\* The lists of one or two children of the node parent, all leaves.
LeafLists(parent) ==
  {<<x>> : x \in Leaves(10 * parent + 1)}
    \cup {<<x, y>> : x \in Leaves(10 * parent + 1), y \in Leaves(10 * parent + 2)}

\* The nodes with the given id and at most one level below them.
Parents(id) == Leaves(id) \cup {Node(id, List(l)) : l \in LeafLists(id)}

ParentLists(parent) ==
  {<<x>> : x \in Parents(10 * parent + 1)}
    \cup {<<x, y>> : x \in Parents(10 * parent + 1), y \in Parents(10 * parent + 2)}

\* The nodes with the given id and at most two levels below them.
GrandParents(id) == Leaves(id) \cup {Node(id, List(l)) : l \in ParentLists(id)}

GrandParentLists(parent) ==
  {<<x>> : x \in GrandParents(10 * parent + 1)}
    \cup {<<x, y>> : x \in GrandParents(10 * parent + 1),
                     y \in GrandParents(10 * parent + 2)}

\* The values of one element of pathList: undefined, [], or a list of trees.
Trees == NoChildren \cup {List(l) : l \in GrandParentLists(0)}

FlattenInit ==
  /\ DirectInit
  /\ synonymsList = getDefaultSynonyms
  /\ args \in {[method |-> "setUpData", data |-> t] : t \in Trees}

\* The call setUpData(data) runs on the empty cache and returns.
SetUpDataCall ==
  /\ args.method = "setUpData"
  /\ returned = <<>>
  /\ rawData' = setUpData(args.data, Undefined, [rawData |-> rawData, threw |-> FALSE]).rawData
  /\ returned' = << Undefined >>
  /\ UNCHANGED <<setupVars, lastCacheUpdate, slotVars, partialCalls, synonymsList,
                 searchPc, search, result, passes, history, args, startOrder>>

FlattenNext == SetUpDataCall

FlattenSpec == FlattenInit /\ [][FlattenNext]_vars

\* The ranked fields isKeyWordFoundInSynonym is called with: a string of
\* the alphabet or a list of one or two strings, full match or not.
ElementStrings == {<<"b">>, <<"a", "b">>, <<"A", " ", "b">>}

SearchElements ==
  {stringElement(cs) : cs \in SeqsUpTo(Alphabet, MaxLen)}
    \cup {arrayElement(<<x>>) : x \in ElementStrings}
    \cup {arrayElement(<<x, y>>) : x \in ElementStrings, y \in ElementStrings}

SearchRankModels ==
  {[searchElement |-> e, fullMatch |-> f, rank |-> 3, synonymRank |-> 1] :
     e \in SearchElements, f \in BOOLEAN}

\* The words looked for (normalized, as getSearchResult passes them on) and
\* the synonym tables.
KeywordWords == {<<"a">>, <<"b">>, <<"b", "b">>, <<"a", "b">>, <<"a", " ", "b">>}

KeywordTables ==
  {<<>>, getDefaultSynonyms, << << <<"a">>, <<"b">> >> >>,
   << << <<"b">>, <<"a", " ", "b">>, <<"a">> >> >>}

KeywordInit ==
  /\ DirectInit
  /\ synonymsList \in KeywordTables
  /\ args \in {[method |-> "isKeyWordFoundInSynonym", searchModel |-> m,
                  searchWithSynonyms |-> getSynonyms(synonymsList, w),
                  searchWord |-> w, partialMatch |-> p] :
                 m \in SearchRankModels, w \in KeywordWords, p \in BOOLEAN}

\* The call isKeyWordFoundInSynonym(searchModel, searchWithSynonyms,
\* searchWord, partialMatch) runs and returns.
IsKeyWordFoundInSynonymCall ==
  /\ args.method = "isKeyWordFoundInSynonym"
  /\ returned = <<>>
  /\ returned' = << isKeyWordFoundInSynonym(args.searchModel, args.searchWithSynonyms,
                                            args.searchWord, args.partialMatch) >>
  /\ UNCHANGED <<setupVars, cacheVars, slotVars, partialCalls, synonymsList,
                 searchPc, search, result, passes, history, args, startOrder>>

KeywordNext == IsKeyWordFoundInSynonymCall

KeywordSpec == KeywordInit /\ [][KeywordNext]_vars

(***************************************************************************)
(* FetchSpec: the integrator calls getServerData() and getServerData(config) *)
(* one call after the other; the mirrors also answer with an error status.   *)
(***************************************************************************)
MaxFetches == 2       \* number of typed calls of getServerData

\* What one request to a mirror ends in, responses with an error status
\* included.
HttpOutcomes(type) == Outcomes(type) \cup {"status500"}

FetchInit ==
  /\ DirectInit
  /\ synonymsList = getDefaultSynonyms
  /\ args = noArguments

\* The integrator calls getServerData() or getServerData(config).
FetchCall ==
  /\ setupPc = "ready"
  /\ pc["direct"] = "idle"
  /\ \E type \in {Undefined, Page} :
       /\ type # Undefined => partialCalls < MaxFetches
       /\ partialCalls' = IF type # Undefined THEN partialCalls + 1 ELSE partialCalls
       /\ getServerData("direct", type)
  /\ UNCHANGED <<searchVars, setupVars, cacheVars, fnIndex, caught>>

FetchNext ==
  \/ FetchCall
  \/ \E o \in HttpOutcomes(cfg["direct"]) : Respond("direct", o)
  \/ Resume("direct")

FetchSpec == FetchInit /\ [][FetchNext]_vars

(***************************************************************************)
(* UrlSpec: the URLs one call of getServerData requests, for every value   *)
(* getSearchUrl returns within the bounds.                                 *)
(***************************************************************************)
\* Array.isArray(urls) ? urls : [...urls]: a list is taken as it is, a
\* string is spread into its characters.
searchUrls(urls) ==
  IF urls.isArray THEN urls.items
  ELSE [i \in 1..Len(urls.value) |-> << urls.value[i] >>]

\* URLs of a list returned by getSearchUrl.
MirrorUrls == {<<"a">>, <<"a", "b">>, <<"b", "b", "a">>}

\* What getSearchUrl returns: one URL (a string that is not empty) or a
\* list of one or two URLs.
SearchUrlValues ==
  {stringElement(cs) : cs \in SeqsUpTo(Alphabet, MaxLen) \ {<<>>}}
    \cup {arrayElement(<<x>>) : x \in MirrorUrls}
    \cup {arrayElement(<<x, y>>) : x \in MirrorUrls, y \in MirrorUrls}

UrlInit ==
  /\ DirectInit
  /\ synonymsList = getDefaultSynonyms
  /\ args \in {[method |-> "getServerData", urls |-> u] : u \in SearchUrlValues}

\* One call of getServerData in which no request gives a valid response:
\* the loop `for (let urlIndex in searchUrls)` passes every element of
\* searchUrls to fetch, in order.  returned holds the URLs requested.
RequestMirrors ==
  /\ args.method = "getServerData"
  /\ returned = <<>>
  /\ returned' = << searchUrls(args.urls) >>
  /\ lastCacheUpdate' = "Error"
  /\ UNCHANGED <<setupVars, rawData, slotVars, partialCalls, synonymsList,
                 searchPc, search, result, passes, history, args, startOrder>>

UrlNext == RequestMirrors

UrlSpec == UrlInit /\ [][UrlNext]_vars

(***************************************************************************)
(* OverlapSpec: timer ticks and manual triggers on a service that is set   *)
(* up with enableCacheTrigger; the order in which the cycles were started  *)
(* is kept.  Hooks and callbacks do not fail and every mirror answers.     *)
(***************************************************************************)
OverlapInit ==
  /\ setupPc = "ready"
  /\ intervalSet = TRUE
  /\ apiSet = TRUE
  /\ enableCacheTrigger = TRUE
  /\ rawData = <<>>
  /\ lastCacheUpdate = "absent"
  /\ pc = [c \in Procs |-> "idle"]
  /\ cfg = [c \in Procs |-> Undefined]
  /\ urlIndex = [c \in Procs |-> 0]
  /\ data = [c \in Procs |-> Undefined]
  /\ fnIndex = [c \in Procs |-> 0]
  /\ caught = [c \in Procs |-> FALSE]
  /\ partialCalls = 0
  /\ synonymsList = getDefaultSynonyms
  /\ searchPc = "none"
  /\ search = undefinedString
  /\ result = noResult
  /\ passes = <<>>
  /\ history = <<>>
  /\ args = noArguments
  /\ returned = <<>>
  /\ startOrder = <<>>

\* The start order once cycle c has been started again.
Started(c) == Append(SelectSeq(startOrder, LAMBDA x : x # c), c)

\* The setInterval callback fires (c = "timer") or GET {apiPath}/updateCache
\* arrives (c = "manual"): cacheIntervalLifecycle() is called.
StartCycle(c) ==
  /\ IF c = "timer" THEN intervalSet ELSE apiSet /\ enableCacheTrigger
  /\ cacheIntervalLifecycle(c)
  /\ startOrder' = Started(c)
  /\ UNCHANGED <<setupVars, cacheVars, partialCalls, synonymsList,
                 searchPc, search, result, passes, history, args, returned>>

OverlapNext ==
  \/ \E c \in Cycles : StartCycle(c)
  \/ \E c \in Cycles : BeforeDone(c)
  \/ \E c \in Cycles : \E o \in Outcomes(cfg[c]) : Respond(c, o)
  \/ \E c \in Cycles : Resume(c)
  \/ \E c \in Cycles : CallbackDone(c)
  \/ \E c \in Cycles : AfterDone(c)

OverlapSpec == OverlapInit /\ [][OverlapNext]_vars

(***************************************************************************)
(* Properties.                                                             *)
(***************************************************************************)
\* The step taken is a step of the activation of c.
Moves(c) ==
  \/ pc'[c] # pc[c]
  \/ urlIndex'[c] # urlIndex[c]
  \/ fnIndex'[c] # fnIndex[c]
  \/ data'[c] # data[c]

\* In this step getServerData of c returns normally.
Returns(c) == pc[c] = "fetch" /\ pc'[c] = "returned"

\* In this step the fetch pass of c ends: getServerData returns or throws.
PassEnds(c) == pc[c] = "fetch" /\ pc'[c] \notin {"fetch", "pending"}

ValidBodies == {d \in JsonBodies : isValidResponse(d)}

\* C1: when the fetch pass of getServerData ends with no valid response
\* (every mirror was requested and none gave a body with a non-empty
\* pathList), the cache after the return is the list it was before, same
\* records in the same order, and the Last Refresh Outcome is Error; the
\* steps of the pass before the return do not write the cache either.
C1_AllMirrorsFailKeepsCache ==
  [][\A c \in Procs :
       /\ (Returns(c) /\ ~isValidResponse(data'[c])) =>
            /\ urlIndex[c] = NumMirrors
            /\ rawData' = rawData
            /\ lastCacheUpdate' = "Error"
       /\ (pc[c] = "fetch" /\ pc'[c] \in {"fetch", "pending"} /\ Moves(c)) =>
            /\ rawData' = rawData
            /\ lastCacheUpdate' = lastCacheUpdate]_vars

\* A failed attempt has returned and the cache that was there is still there.
C1_Witness ==
  \E c \in Procs :
    /\ pc[c] = "returned"
    /\ ~isValidResponse(data[c])
    /\ urlIndex[c] = NumMirrors
    /\ lastCacheUpdate = "Error"
    /\ rawData = Flattening("A", Undefined).rawData
    /\ rawData # <<>>

\* C2: when a full refresh (no request config) returns after mirror k gave
\* the first valid response, the cache is the flattening of that response's
\* pathList alone, whatever the cache held before, and the Last Refresh
\* Outcome is Success.
C2_FailoverReplacesCache ==
  [][\A c \in Procs :
       (Returns(c) /\ cfg[c] = Undefined /\ isValidResponse(data'[c])) =>
         /\ ~Flattening(data'[c], Undefined).threw
         /\ rawData' = Flattening(data'[c], Undefined).rawData
         /\ lastCacheUpdate' = "Success"]_vars

\* A cycle returned from a full refresh that the second or a later mirror
\* answered, with the first valid body's flattening as the cache.
C2_Witness ==
  \E c \in Cycles :
    /\ pc[c] = "returned"
    /\ urlIndex[c] >= 2
    /\ isValidResponse(data[c])
    /\ rawData = Flattening(data[c], Undefined).rawData
    /\ rawData # <<>>
    /\ lastCacheUpdate = "Success"

\* C3: in one fetch pass the mirrors are requested in list order, starting
\* with the first, one at a time: the next mirror is requested only in the
\* step that handles the end of the previous request, and only when no valid
\* response has been received; a mirror that throws or answers with an
\* invalid body does not end the pass unless it is the last one.
C3_MirrorsInOrderUntilValid ==
  [][\A c \in Procs :
       /\ (pc[c] # "fetch" /\ pc'[c] = "fetch") => urlIndex'[c] = 1
       /\ (pc[c] = "fetch" /\ pc'[c] = "fetch" /\ Moves(c)) =>
            /\ urlIndex'[c] = urlIndex[c] + 1
            /\ urlIndex'[c] <= NumMirrors
            /\ ~isValidResponse(data'[c])
       /\ (Returns(c) /\ ~isValidResponse(data'[c])) => urlIndex[c] = NumMirrors
       /\ PassEnds(c) => urlIndex'[c] \in {0, urlIndex[c]}]_vars

\* One activation requests the second mirror after the first failed while
\* another one has stopped at a valid response of its first mirror.
C3_Witness ==
  \E c, d \in Procs :
    /\ pc[c] = "fetch" /\ urlIndex[c] = 2
    /\ pc[d] = "returned" /\ urlIndex[d] = 1 /\ isValidResponse(data[d])

\* C4: a refresh attempt that does not fully succeed, because all mirrors
\* are invalid or because the transform throws while a valid response is
\* flattened, leaves the cache equal to its value before the attempt.
C4_FailedAttemptLeavesCache ==
  [][\A c \in Procs :
       (PassEnds(c) /\ ~(Returns(c) /\ isValidResponse(data'[c]))) =>
         rawData' = rawData]_vars

\* C5: the cache is always empty or the complete flattening of the data of
\* exactly one successful fetch.
C5_CacheEmptyOrOneFetch ==
  \/ rawData = <<>>
  \/ \E d \in ValidBodies : \E type \in {Undefined, Page} :
       /\ ~Flattening(d, type).threw
       /\ rawData = Flattening(d, type).rawData

\* The cycles whose fetch pass is in progress.
Fetching == {c \in Cycles : pc[c] \in {"fetch", "pending"}}

\* C6: at most one refresh is in flight at any time: the fetch passes of a
\* timer cycle and of a manually triggered cycle never overlap.
C6_SingleRefreshInFlight == Cardinality(Fetching) <= 1

\* C7: in every refresh cycle the before hook completes, then the fetch pass
\* runs to its end, then the post-refresh callbacks run in registration
\* order, each one completed before the next one starts, then the after
\* hook runs; a cycle in which nothing was caught runs every callback
\* before the after hook.
C7_CycleOrder ==
  [][\A c \in Cycles : Moves(c) =>
       /\ pc'[c] = "cacheIntervalBefore" => pc[c] = "idle"
       /\ pc'[c] \in {"fetch", "pending"} => pc[c] \in {"cacheIntervalBefore", "fetch"}
       /\ pc'[c] = "returned" => pc[c] = "fetch"
       /\ pc'[c] = "callback" =>
            \/ pc[c] = "returned" /\ fnIndex'[c] = 1
            \/ pc[c] = "callback" /\ fnIndex'[c] = fnIndex[c] + 1
       /\ pc'[c] = "cacheIntervalAfter" =>
            \/ pc[c] = "callback" /\ (fnIndex[c] = NumCallbacks \/ caught'[c])
            \/ pc[c] = "returned" /\ NumCallbacks = 0
            \/ pc[c] = "fetch" /\ caught'[c]
       /\ pc'[c] = "idle" => pc[c] \in {"cacheIntervalAfter", "cacheIntervalBefore"}]_vars

\* A cycle has run its fetch pass and all its callbacks without a failure
\* and awaits the after hook.
C7_Witness ==
  \E c \in Cycles :
    /\ pc[c] = "cacheIntervalAfter"
    /\ ~caught[c]
    /\ lastCacheUpdate = "Success"
    /\ NumCallbacks >= 2

\* C8: when a post-refresh callback that is not the last one ends, also by
\* throwing, the next registered callback of the same cycle is run.
C8_CallbacksRunAfterThrow ==
  [][\A c \in Cycles :
       (pc[c] = "callback" /\ fnIndex[c] < NumCallbacks /\ Moves(c)) =>
         /\ pc'[c] = "callback"
         /\ fnIndex'[c] = fnIndex[c] + 1]_vars

\* C9: once setUp has set the interval it stays set, however a cycle ended
\* (fetch failure, exception caught in triggerGetServerData), and whenever
\* no timer cycle is running a tick can start a new one.
C9_TimerSurvivesFailures ==
  setupPc = "ready" =>
    /\ intervalSet
    /\ pc["timer"] = "idle" => ENABLED TimerTick

\* A new timer cycle has started after the previous timer cycle ended in
\* the catch block and the last refresh attempt failed.
C9_Witness ==
  /\ pc["timer"] = "cacheIntervalBefore"
  /\ caught["timer"]
  /\ lastCacheUpdate = "Error"

\* The steps the activation of c can take.
ProcStep(c) ==
  \/ BeforeDone(c)
  \/ BeforeThrows(c)
  \/ \E o \in Outcomes(cfg[c]) : Respond(c, o)
  \/ Resume(c)
  \/ CallbackDone(c)
  \/ CallbackThrows(c)
  \/ AfterDone(c)

\* C10: a refresh cycle that has started and not finished can always take
\* a step towards its end: it never waits for a mirror for ever.
C10_CycleNeverStuck ==
  \A c \in Cycles : pc[c] # "idle" => ENABLED ProcStep(c)

\* The cycles that await a post-refresh callback.
InCallback == {c \in Cycles : pc[c] = "callback"}

\* C11: no two post-refresh callback invocations are in progress at the
\* same time, and no callback is in progress while the fetch pass of a
\* refresh is in progress.
C11_CallbacksNeverOverlap ==
  /\ Cardinality(InCallback) <= 1
  /\ InCallback # {} => Fetching = {}

\* C12: the Last Refresh Outcome is absent until the first refresh attempt
\* ends and is written only by the step that ends an attempt; after that
\* step it is the status of that attempt: Error when the attempt returned
\* without a valid response, Success when it found one (an attempt that
\* ends by an exception of the transform has found a valid response).
C12_OutcomeOfLatestAttempt ==
  [][/\ (\A c \in Procs : ~PassEnds(c)) => lastCacheUpdate' = lastCacheUpdate
     /\ \A c \in Procs :
          PassEnds(c) =>
            lastCacheUpdate' = IF Returns(c) /\ ~isValidResponse(data'[c])
                               THEN "Error" ELSE "Success"]_vars

\* C13: the updateCache route starts a cycle only when enableCacheTrigger
\* is set, and starting it writes neither the cache nor the Last Refresh
\* Outcome; with the flag not set the manual cycle never leaves "idle".  The
\* cycle started goes the way of the timer's cycle: before hook, full fetch
\* pass from the first mirror, callbacks from the first one, after hook.
C13_ManualTriggerGated ==
  [][LET m == "manual" IN
     /\ ~enableCacheTrigger => pc'[m] = "idle"
     /\ (pc[m] = "idle" /\ pc'[m] # "idle") =>
          /\ enableCacheTrigger /\ apiSet
          /\ pc'[m] = "cacheIntervalBefore"
          /\ UNCHANGED cacheVars
     /\ (pc[m] = "cacheIntervalBefore" /\ Moves(m)) =>
          \/ pc'[m] = "idle"
          \/ pc'[m] = "fetch" /\ cfg'[m] = Undefined /\ urlIndex'[m] = 1
     /\ (pc[m] = "returned" /\ Moves(m)) => pc'[m] = "callback" /\ fnIndex'[m] = 1
     /\ (pc[m] = "callback" /\ Moves(m)) => pc'[m] \in {"callback", "cacheIntervalAfter"}
     /\ (pc[m] = "cacheIntervalAfter" /\ Moves(m)) => pc'[m] = "idle"]_vars

\* A manually triggered cycle has fetched and awaits its last callback.
C13_Witness ==
  /\ enableCacheTrigger
  /\ pc["manual"] = "callback"
  /\ fnIndex["manual"] = NumCallbacks
  /\ lastCacheUpdate = "Success"

\* C14: when a typed refresh (getServerData called with a request config)
\* returns after a valid response, the cache is the cache of before, same
\* records in the same order, followed by the flattening of the response,
\* and every record of that flattening carries the config's type.
C14_TypedRefreshAppends ==
  [][\A c \in Procs :
       (Returns(c) /\ cfg[c] # Undefined /\ isValidResponse(data'[c])) =>
         LET f == Flattening(data'[c], cfg[c]).rawData IN
         /\ rawData' = rawData \o f
         /\ Len(f) >= 2
         /\ \A i \in 1..Len(f) : f[i].type = cfg[c]
         /\ lastCacheUpdate' = "Success"]_vars

\* A typed refresh has returned and the cache is a full refresh's
\* flattening followed by the typed one.
C14_Witness ==
  /\ pc["direct"] = "returned"
  /\ cfg["direct"] = Page
  /\ rawData = Flattening("A", Undefined).rawData \o Flattening("P", Page).rawData
  /\ Len(rawData) = 4

(***************************************************************************)
(* Properties of the search (SearchSpec).                                  *)
(***************************************************************************)
\* In this step a call of getSearchResult runs.
Searches == searchPc = "called" /\ searchPc' = "done"

\* The argument of the call is the empty string or undefined.
EmptyArgument == ~search.defined \/ search.chars = <<>>

\* The query after normalization: trimmed and lower-cased.
Normalized == toLowerCase(trim(search.chars))

\* The label the specification gives for the reply to an empty query.
notDefined == <<"n", "o", "t", "-", "d", "e", "f", "i", "n", "e", "d">>

\* C15: getSearchResult called with the empty string or with undefined
\* returns exactly {search: "not-defined", foundItems: 0, results: []},
\* whatever the cache holds, and calls no scoring pass.
C15_EmptyQuerySentinel ==
  (searchPc = "done" /\ EmptyArgument) =>
    /\ result = [search |-> notDefined, foundItems |-> 0, results |-> <<>>]
    /\ passes = <<>>

\* C16: a query that is not empty but is empty after normalization (only
\* white space) yields zero matches whatever the cache holds.
C16_BlankQueryNoMatches ==
  (searchPc = "done" /\ ~EmptyArgument /\ Normalized = <<>>) =>
    /\ result.foundItems = 0
    /\ result.results = <<>>

\* C17: every record of the returned results has searchRank > 0, for every
\* query and cache, whichever level produced the result.
C17_ResultsHavePositiveRank ==
  searchPc = "done" =>
    \A i \in 1..Len(result.results) : searchRankOf(result.results[i]) > 0

\* C18: if the first level (the whole normalized query, not relaxed) finds
\* at least one record, getSearchResult returns exactly the first level's
\* result and makes no other call of searchForSingleWord.
C18_FirstLevelShortCircuits ==
  [][(Searches /\ ~EmptyArgument) =>
       LET first == searchForSingleWord(rawData, synonymsList, Normalized, FALSE).result
       IN first.foundItems >= 1 =>
            /\ result' = first
            /\ passes' = << Pass(Normalized, FALSE) >>]_vars

\* A query of two words was answered by the first level alone.
C18_Witness ==
  /\ searchPc = "done"
  /\ search.defined
  /\ Len(split(Normalized)) = 2
  /\ passes = << Pass(Normalized, FALSE) >>
  /\ result.foundItems >= 1
  /\ \A i \in 1..Len(result.results) : searchRankOf(result.results[i]) > 0

\* The calls of searchForSingleWord for single words (second level) among
\* the calls ps of one getSearchResult: all but the first call and but a
\* relaxed last call.
SecondLevelPasses(ps) ==
  IF ps = <<>> THEN <<>>
  ELSE SubSeq(ps, 2, IF ps[Len(ps)].partial THEN Len(ps) - 1 ELSE Len(ps))

\* The number of records the word finds in the cache, not relaxed.
FoundFor(word) ==
  searchForSingleWord(rawData, synonymsList, word, FALSE).result.foundItems

ContainsSynonym(field, synonyms) ==
  \E k \in 1..Len(synonyms) :
    IF field.searchElement.isArray
    THEN \E m \in 1..Len(field.searchElement.items) :
           includes(toLowerCase(field.searchElement.items[m]), synonyms[k])
    ELSE /\ field.searchElement.value # <<>>
         /\ includes(toLowerCase(field.searchElement.value), synonyms[k])

LastPass(ps) == ps[Len(ps)]

\* The result was returned by the second level: by a call for a single word
\* after the first call.
FromSecondLevel(ps) == Len(ps) >= 2 /\ ~LastPass(ps).partial

\* C21: for every query that is not empty after normalization the label of
\* the result is the comma-joined list of the synonyms of the term that
\* produced the result: the whole normalized query when the first or the
\* third level returned, the word that found records when the second level
\* returned.
C21_LabelIsSynonymsOfTerm ==
  [][(Searches /\ ~EmptyArgument /\ Normalized # <<>>) =>
       LET ps == passes'
           term == LastPass(ps).search
       IN /\ ~FromSecondLevel(ps) => term = Normalized
          /\ FromSecondLevel(ps) =>
               /\ arrayIncludes(split(Normalized), term)
               /\ result'.foundItems > 0
          /\ result'.search = toString(getSynonyms(synonymsList, term))]_vars

\* The second level returned for the word "bb" and the label names the word
\* and its synonym.
C21_Witness ==
  /\ searchPc = "done"
  /\ search.defined
  /\ Len(passes) = 2
  /\ passes[2] = Pass(<<"b", "b">>, FALSE)
  /\ result.foundItems > 0
  /\ result.search = <<"b", "b", ",", "a">>

\* The candidate (the query word or one of its synonyms) is a synonym hit on
\* the field: it is not the query word and the field is not a full-match
\* field.
SynonymHit(field, candidate, word) == candidate # word /\ ~field.fullMatch

\* The candidate is compared with the field by token equality (TRUE) or by
\* substring containment (FALSE).
TokenEquality(field, candidate, word, relaxed) ==
  ~relaxed /\ (field.fullMatch \/ SynonymHit(field, candidate, word))

\* The values of the field: its elements, or its one string (a field with
\* the empty string has no value).
FieldValues(field) ==
  IF field.searchElement.isArray
  THEN {field.searchElement.items[m] : m \in 1..Len(field.searchElement.items)}
  ELSE {field.searchElement.value} \ {<<>>}

\* The candidate matches the field.
CandidateMatches(field, candidate, word, relaxed) ==
  \E value \in FieldValues(field) :
    IF TokenEquality(field, candidate, word, relaxed)
    THEN \E t \in 1..Len(split(toLowerCase(value))) :
           split(toLowerCase(value))[t] = toLowerCase(candidate)
    ELSE includes(toLowerCase(value), toLowerCase(candidate))

\* The candidates that match the field.
MatchingCandidates(field, synonyms, word, relaxed) ==
  {k \in 1..Len(synonyms) : CandidateMatches(field, synonyms[k], word, relaxed)}

\* What the field adds to the rank of its record: nothing when no candidate
\* matches, synonymRank when the match is a synonym hit, rank when it is a
\* literal match.
FieldWeight(field, synonyms, word, relaxed) ==
  LET matching == MatchingCandidates(field, synonyms, word, relaxed)
  IN IF matching = {} THEN 0
     ELSE IF \E k \in matching : ~SynonymHit(field, synonyms[k], word)
          THEN field.rank
          ELSE field.synonymRank

\* The sum of the weights of the fields from..Len(fields).
RECURSIVE SumOfWeights(_, _, _, _, _)
SumOfWeights(fields, from, synonyms, word, relaxed) ==
  IF from > Len(fields) THEN 0
  ELSE FieldWeight(fields[from], synonyms, word, relaxed)
         + SumOfWeights(fields, from + 1, synonyms, word, relaxed)

\* The last call of searchForSingleWord among ps that scored the cache (a
\* call for the empty word scores nothing).
RECURSIVE LastScoringPass(_)
LastScoringPass(ps) ==
  IF LastPass(ps).search # <<>> THEN LastPass(ps)
  ELSE LastScoringPass(SubSeq(ps, 1, Len(ps) - 1))

\* C22: after a query every cached record's searchRank is the sum, over its
\* ranked fields that match the term, of synonymRank when the match is a
\* synonym hit and of rank when it is a literal match; fields that do not
\* match add nothing; and the records returned carry that rank.
C22_RankIsSumOfWeights ==
  [][(Searches /\ ~EmptyArgument /\ Normalized # <<>>) =>
       LET scoring == LastScoringPass(passes')
           synonyms == getSynonyms(synonymsList, scoring.search)
           expected == [i \in 1..Len(rawData) |->
                          SumOfWeights(getSearchCriteria(rawData[i]), 1, synonyms,
                                       scoring.search, scoring.partial)]
       IN /\ Len(rawData') = Len(rawData)
          /\ \A i \in 1..Len(rawData) :
               /\ rawData'[i].id = rawData[i].id
               /\ searchRankOf(rawData'[i]) = expected[i]
          /\ \A r \in 1..Len(result'.results) :
               \E i \in 1..Len(rawData) :
                 /\ result'.results[r].id = rawData[i].id
                 /\ searchRankOf(result'.results[r]) = expected[i]]_vars

\* The query "ab" found record 1 by two literal matches, in its title (3)
\* and in its text (2).
C22_Witness ==
  /\ searchPc = "done"
  /\ search.defined
  /\ Normalized = <<"a", "b">>
  /\ passes = << Pass(Normalized, FALSE) >>
  /\ \E r \in 1..Len(result.results) :
       result.results[r].id = 1 /\ searchRankOf(result.results[r]) = 5

\* The position in the cache of the record the result record r is.
CacheIndex(r) == CHOOSE i \in 1..Len(rawData) : rawData[i].id = r.id

\* C23: the results returned are ordered by searchRank descending, records
\* of equal rank keep their relative cache order, and foundItems is the
\* number of results returned.
C23_ResultsOrdered ==
  searchPc = "done" =>
    /\ result.foundItems = Len(result.results)
    /\ \A i, j \in 1..Len(result.results) :
         i < j =>
           /\ searchRankOf(result.results[i]) >= searchRankOf(result.results[j])
           /\ searchRankOf(result.results[i]) = searchRankOf(result.results[j])
                => CacheIndex(result.results[i]) < CacheIndex(result.results[j])

\* C24: a query run again with no refresh in between, other queries
\* possibly run in between, returns what it returned before: the same label,
\* foundItems, records, order and ranks.
C24_SameQuerySameResult ==
  searchPc = "done" =>
    \A i \in 1..Len(history) :
      history[i].search = search => history[i].result = result

\* The elements of a list, as a set.
SetOf(arr) == {arr[i] : i \in 1..Len(arr)}

\* C25: for a lower-cased word w, getSynonyms(w) is, as a set, w together
\* with the members of every group of the synonym table that contains w:
\* the singleton {w} when no group contains it.
C25_SynonymsAreUnionOfGroups ==
  (returned # <<>> /\ args.method = "getSynonyms"
     /\ toLowerCase(args.search) = args.search) =>
    SetOf(returned[1]) =
      {args.search}
        \cup UNION {SetOf(synonymsList[g]) :
                      g \in {k \in 1..Len(synonymsList) :
                               args.search \in SetOf(synonymsList[k])}}

\* The word "a" is in two groups with different other members, and
\* getSynonyms returned the three words.
C25_Witness ==
  /\ returned # <<>>
  /\ args = [method |-> "getSynonyms", search |-> <<"a">>]
  /\ Len(synonymsList) = 2
  /\ \A g \in 1..2 : <<"a">> \in SetOf(synonymsList[g])
  /\ SetOf(returned[1]) = SynonymWords

\* C26: getSynonyms(w) returns the same set of words as getSynonyms of w
\* lower-cased, for every string w.
C26_SynonymsCaseInsensitive ==
  (returned # <<>> /\ args.method = "getSynonyms") =>
    SetOf(returned[1]) = SetOf(getSynonyms(synonymsList, toLowerCase(args.search)))

\* The nodes of the trees of a children list: the nodes of the list and
\* their descendants.
RECURSIVE NodesIn(_)
NodesIn(list) ==
  IF ~list.defined THEN {}
  ELSE {list.items[i] : i \in 1..Len(list.items)}
         \cup UNION {NodesIn(list.items[i].children) : i \in 1..Len(list.items)}

\* The node has at least one child.
HasChild(node) == node.children.defined /\ Len(node.children.items) >= 1

\* The ids of the records in the cache.
CachedIds == {rawData[i].id : i \in 1..Len(rawData)}

\* C27: flattening puts a node into the cache exactly if the node has at
\* least one child; a node whose children field is missing, undefined or an
\* empty list yields no record.
C27_CachedIffHasChild ==
  (returned # <<>> /\ args.method = "setUpData") =>
    CachedIds = {n.id : n \in {m \in NodesIn(args.data) : HasChild(m)}}

\* The path of a node from its id: the positions among the siblings, from
\* the root down.
RECURSIVE PathOf(_)
PathOf(id) == IF id = 0 THEN <<>> ELSE Append(PathOf(id \div 10), id % 10)

\* Node a is a proper ancestor of node d.
IsAncestor(a, d) ==
  /\ Len(PathOf(a)) < Len(PathOf(d))
  /\ SubSeq(PathOf(d), 1, Len(PathOf(a))) = PathOf(a)

\* Nodes a and b are in the subtrees of two siblings (or are the siblings),
\* a in the subtree of the one that comes first in the children list.
InEarlierSubtree(a, b) ==
  \E k \in 1..Len(PathOf(a)) :
    /\ k <= Len(PathOf(b))
    /\ SubSeq(PathOf(a), 1, k - 1) = SubSeq(PathOf(b), 1, k - 1)
    /\ PathOf(a)[k] < PathOf(b)[k]

\* C28: the flattened list is in pre-order: the record of every node with a
\* child is there exactly once, before the records of all its descendants,
\* and the records of the subtrees of siblings come in the order of the
\* siblings in their children list.
C28_FlattenedInPreOrder ==
  (returned # <<>> /\ args.method = "setUpData") =>
    /\ \A n \in NodesIn(args.data) :
         HasChild(n) => Cardinality({i \in 1..Len(rawData) : rawData[i].id = n.id}) = 1
    /\ \A i, j \in 1..Len(rawData) :
         /\ i # j => rawData[i].id # rawData[j].id
         /\ IsAncestor(rawData[i].id, rawData[j].id) => i < j
         /\ InEarlierSubtree(rawData[i].id, rawData[j].id) => i < j

\* Two sibling roots with two children each, one grandchild with a child of
\* its own: the cache holds the first root, its descendants, then the
\* second root and its descendants.
C28_Witness ==
  /\ returned # <<>>
  /\ args.method = "setUpData"
  /\ Len(rawData) >= 5
  /\ rawData[1].id = 1
  /\ \E i, j, k \in 1..Len(rawData) :
       /\ 1 < i /\ i < j /\ j < k
       /\ rawData[i].id = 12
       /\ rawData[j].id = 2
       /\ rawData[k].id = 21

\* The call of isKeyWordFoundInSynonym has returned.
KeywordReturned == returned # <<>> /\ args.method = "isKeyWordFoundInSynonym"

\* C29: a candidate (the word or a synonym) is compared with a field by
\* substring containment when the match is relaxed; otherwise by token
\* equality when the field is a full-match field or the candidate is a
\* synonym hit, and by substring containment when neither; a list-valued
\* field matches when one of its elements matches.  The field is found
\* exactly if some candidate matches it in that way.
C29_ComparisonMode ==
  KeywordReturned =>
    (returned[1].found <=>
       \E k \in 1..Len(args.searchWithSynonyms) :
         CandidateMatches(args.searchModel, args.searchWithSynonyms[k],
                          args.searchWord, args.partialMatch))

\* The text "b a" of a field that is not a full-match field holds the
\* synonym "a" of the word "bb" as a token and is found by it.
C29_Witness ==
  /\ KeywordReturned
  /\ ~args.partialMatch
  /\ ~args.searchModel.fullMatch
  /\ args.searchWord = <<"b", "b">>
  /\ args.searchWithSynonyms = << <<"b", "b">>, <<"a">> >>
  /\ args.searchModel.searchElement = stringElement(<<"b", " ", "a">>)
  /\ returned[1].found

\* The candidate that matched: the first candidate, in the order of the
\* synonym list, that matches the field.
MatchedCandidate ==
  LET matching == MatchingCandidates(args.searchModel, args.searchWithSynonyms,
                                     args.searchWord, args.partialMatch)
  IN args.searchWithSynonyms[CHOOSE k \in matching : \A m \in matching : k <= m]

\* C30: a field found is a synonym hit exactly when the candidate that
\* matched differs from the query word and the field is not a full-match
\* field: a full-match field is never a synonym hit, and neither is a field
\* the query word itself matches.
C30_SynonymHit ==
  (KeywordReturned /\ returned[1].found) =>
    /\ returned[1].synonym <=>
         (MatchedCandidate # args.searchWord /\ ~args.searchModel.fullMatch)
    /\ args.searchModel.fullMatch => ~returned[1].synonym
    /\ CandidateMatches(args.searchModel, args.searchWord, args.searchWord,
                        args.partialMatch) => ~returned[1].synonym

\* A full-match field found by a synonym of the word only: not a synonym
\* hit.
C30_Witness ==
  /\ KeywordReturned
  /\ returned[1].found
  /\ ~returned[1].synonym
  /\ args.searchModel.fullMatch
  /\ MatchedCandidate # args.searchWord

\* The ranked field is a string or a list of strings.
WellFormed(field) ==
  IF field.searchElement.isArray
  THEN \A m \in 1..Len(field.searchElement.items) : isString(field.searchElement.items[m])
  ELSE isString(field.searchElement.value)

\* The ranked fields of the record that are well-formed.
WellFormedFields(searchModel) ==
  SelectSeq(getSearchCriteria(searchModel), LAMBDA field : WellFormed(field))

\* C31: a ranked field that is neither a string nor a list of strings adds
\* nothing to the rank of its record; the record's other fields and the
\* other records are scored as ever (the rank of every record is the sum of
\* the weights of its well-formed fields) and the query returns a result.
C31_MalformedFieldAddsNothing ==
  [][(Searches /\ ~EmptyArgument /\ Normalized # <<>>) =>
       LET scoring == LastScoringPass(passes')
           synonyms == getSynonyms(synonymsList, scoring.search)
       IN /\ Len(rawData') = Len(rawData)
          /\ \A i \in 1..Len(rawData) :
               searchRankOf(rawData'[i]) =
                 SumOfWeights(WellFormedFields(rawData[i]), 1, synonyms,
                              scoring.search, scoring.partial)
          /\ result'.foundItems = Len(result'.results)]_vars

\* C32: a mirror that answers with an error status is a failed mirror,
\* also when its body is JSON with a non-empty pathList: the cache is not
\* written, the next mirror is requested, and after the last mirror the
\* attempt ends with the Last Refresh Outcome Error.
C32_ErrorStatusIsFailure ==
  [][\A c \in Procs :
       (pc[c] = "fetch" /\ data'[c] = "status500") =>
         /\ rawData' = rawData
         /\ urlIndex[c] < NumMirrors =>
              pc'[c] = "fetch" /\ urlIndex'[c] = urlIndex[c] + 1
         /\ urlIndex[c] = NumMirrors => lastCacheUpdate' = "Error"]_vars

\* C39: a typed refresh that succeeds while the cache already holds the
\* records of the same typed response leaves the cache as it is: doing the
\* same typed request twice adds no record a second time.
C39_TypedRefreshIdempotent ==
  [][\A c \in Procs :
       (/\ Returns(c)
        /\ cfg[c] = Page
        /\ isValidResponse(data'[c])
        /\ \A rec \in SetOf(Flattening(data'[c], Page).rawData) : rec \in SetOf(rawData))
         => rawData' = rawData]_vars

\* C33: when getSearchUrl returns one URL as a string, a refresh attempt
\* requests that URL and nothing else: the mirrors tried are the list of
\* that one URL.
C33_SingleUrlOneRequest ==
  (returned # <<>> /\ args.method = "getServerData" /\ ~args.urls.isArray) =>
    returned[1] = << args.urls.value >>

\* A cached record without its searchRank working field.
Identity(searchModel) == [id |-> searchModel.id, type |-> searchModel.type]

\* C34: a query changes nothing but the searchRank of cached records: the
\* cache holds the same records in the same order after the query as before
\* it, and the synonym table and the Last Refresh Outcome are as before.
C34_QueryWritesOnlySearchRank ==
  [][Searches =>
       /\ Len(rawData') = Len(rawData)
       /\ \A i \in 1..Len(rawData) : Identity(rawData'[i]) = Identity(rawData[i])
       /\ synonymsList' = synonymsList
       /\ lastCacheUpdate' = lastCacheUpdate]_vars

\* After two queries on a cache of two records the second record has the
\* higher searchRank and is still the second record of the cache.
C34_Witness ==
  /\ searchPc = "done"
  /\ Len(history) = 2
  /\ Len(rawData) = 2
  /\ searchRankOf(rawData[1]) < searchRankOf(rawData[2])
  /\ result.foundItems = 1

\* C35: with a startup delay nothing happens before the delay has elapsed:
\* while setUp() is deferred no setup hook has been called, no route and no
\* interval is set, no cycle and no fetch is under way and the cache is
\* untouched, and the only step is the end of the delay.  A timer cycle is
\* started only by the interval that setUp() has set, and once it is set a
\* tick can start a cycle whenever the timer's last cycle is over: the
\* interval does not depend on the delay.
C35_DelayDefersSetupOnly ==
  [][/\ setupPc = "delay" =>
          /\ \A c \in Procs : pc[c] = "idle"
          /\ ~intervalSet /\ ~apiSet
          /\ rawData = <<>> /\ lastCacheUpdate = "absent"
          /\ setupPc' = "setUpCallbacksBefore"
          /\ pc' = pc /\ intervalSet' = intervalSet /\ rawData' = rawData
     /\ (pc["timer"] = "idle" /\ pc'["timer"] # "idle") =>
          intervalSet /\ setupPc = "ready"
     /\ (setupPc = "ready" /\ pc["timer"] = "idle") => ENABLED TimerTick]_vars

\* setUp() is deferred: the delay has not elapsed.
C35_Witness ==
  /\ setupPc = "delay"
  /\ \A c \in Procs : pc[c] = "idle"
  /\ ~intervalSet

\* The latest activation of cycle a was started before that of cycle b.
StartedBefore(a, b) ==
  \E i, j \in 1..Len(startOrder) :
    i < j /\ startOrder[i] = a /\ startOrder[j] = b

\* The latest activation of cycle c has ended its fetch pass and the pass
\* succeeded: it set the Last Refresh Outcome that is there now.
RefreshedCache(c) ==
  /\ pc[c] \notin {"cacheIntervalBefore", "fetch", "pending"}
  /\ ~caught[c]
  /\ lastCacheUpdate = "Success"

\* C36: when two cycles overlap and the fetch passes of both succeed, the
\* cache is the one of the cycle started last: the fetch pass of the cycle
\* started first, returning after the other cycle has refreshed the cache,
\* does not write the cache.
C36_OlderCycleNeverOverwrites ==
  [][\A older, newer \in Cycles :
       (/\ Returns(older)
        /\ isValidResponse(data'[older])
        /\ StartedBefore(older, newer)
        /\ RefreshedCache(newer))
         => rawData' = rawData]_vars

\* The object that a returned record r is: getSearchRank returns the cached
\* object it was given, map, filter and sort copy no object, so a result
\* holds the cached objects themselves and the caller reads what they hold now.
heldRecord(r) == rawData[CacheIndex(r)]

\* C37: the records of a result returned by a query are not altered by
\* later queries: the searchRank a caller reads from a record of an earlier
\* result is the one the record had when the result was returned.
C37_EarlierResultsKeepRanks ==
  \A k \in 1..Len(history) :
    \A i \in 1..Len(history[k].result.results) :
      LET r == history[k].result.results[i]
      IN searchRankOf(heldRecord(r)) = searchRankOf(r)

\* In this step cycle c comes to its after hook.
ReachesAfterHook(c) ==
  pc[c] # "cacheIntervalAfter" /\ pc'[c] = "cacheIntervalAfter"

\* C38: the post-refresh callbacks and the after hook run in every cycle
\* whose before hook completed, whatever the fetch pass gave: a cycle comes
\* to its after hook only from its last callback, every callback having
\* been run before it.
C38_CallbacksRunInEveryCycle ==
  [][\A c \in Cycles :
       ReachesAfterHook(c) =>
         pc[c] = "callback" /\ fnIndex[c] = NumCallbacks]_vars

====
